---- MODULE Spec2Model ----
(***************************************************************************)
(* Model of the training pipeline of the image-classification server:      *)
(* folderToTensors / shuffleCombo / learnTransferModel (TFhelper module)   *)
(* and the 'yourBeginLearnMsg' socket handler that invokes it.             *)
(*                                                                         *)
(* A run is one invocation of learnTransferModel.  Per-run state is kept   *)
(* in functions over RunIds; a process exit ends every run it hosts.       *)
(***************************************************************************)
EXTENDS Integers, Sequences, FiniteSets, TLC

\* ------------------------------------------------------------------ bounds
\* Largest number of files the glob enumeration yields in the model.
MaxFiles == 3

\* ------------------------------------------------------- program constants
\* fit(..., { epochs: 100 })
epochs == 100

\* Invocations of learnTransferModel the model can hold.
RunIds == {1, 2}

\* Names of the label sub-folders that may exist under the project root.
LabelNames == {"catA", "catB"}

\* One enumerated file: its parent directory name and whether
\* tf.node.decodeImage accepts its bytes.
FileKinds == [dir : LabelNames, ok : BOOLEAN]

SeqsUpTo(S, n) == UNION {[1..k -> S] : k \in 0..n}

VARIABLES
  pc,            \* per run: position of the invocation in its code
  socket,        \* per run: TRUE when a Socket.IO socket was passed, FALSE for null
  files,         \* per run: what glob yields (enumeration order)
  globOk,        \* per run: whether the glob promise resolves
  modelOk,       \* per run: whether tf.loadGraphModel resolves
  dirs,          \* per run: label names, in push order
  XS,            \* per run: image tensors (identified by file position)
  YS,            \* per run: label indices (0-based, as in the code)
  pos,           \* per run: number of files forEach has completed
  counter,       \* per run: shuffleCombo's counter
  X,             \* per run: the stacked image tensor resolved by folderToTensors
  Y,             \* per run: the one-hot label tensor
  loaded,        \* per run: state of the folderToTensors promise
  epoch,         \* per run: index of the next epoch fit() trains
  emitted,       \* per run: events sent with socket.emit, in order
  outcome,       \* per run: state of the learnTransferModel promise
  host,          \* per run: the node process the invocation runs in
  alive,         \* the node processes that have not exited
  turn,          \* 0: runs are scheduled freely; r: lockstep, run r moves next
  tape,          \* lockstep only: the values the random source has returned
  tree,          \* per run: the entries under the root folder, in listing order
  console,       \* per run: what the invocation wrote with console.log / error
  live,          \* per run: the named tensors created and not disposed
  connected,     \* per run: the socket of the request is still connected
  px,            \* one pixel value on its way from the file to the backbone
  pxStage,       \* the last operation applied to px
  given,         \* the array one call of shuffleCombo is given
  execs,         \* that call's executions, one per sequence of draws so far
  disk,          \* the file system: the paths that exist, with what they hold
  req,           \* per request: the message a client sent
  at,            \* per request: where its handler is
  folder,        \* per request: folderName of the uploadFolder handler
  replies,       \* per request: what has been emitted in answer
  touched        \* the paths handed to a file system call so far

vars == <<pc, socket, files, globOk, modelOk, dirs, XS, YS, pos, counter,
          X, Y, loaded, epoch, emitted, outcome, host, alive, turn, tape,
          tree, console, live, connected, px, pxStage, given, execs,
          disk, req, at, folder, replies, touched>>

\* What an invocation is given and never writes.
inputs == <<socket, files, globOk, modelOk, host, tree>>

\* What no step of the pipeline writes.
\* The state of the file handlers of the server.
store == <<disk, req, at, folder, replies, touched>>

aside == <<connected, px, pxStage, given, execs, store>>

\* ---------------------------------------------------------------- helpers

\* Variant of includes: the membership test is missing.
includesNothing(arr, v) == FALSE

\* Array.prototype.includes
includes(arr, v) == \E i \in 1..Len(arr) : arr[i] = v

\* Array.prototype.indexOf: 0-based position of the first match, -1 if none.
indexOf(arr, v) ==
  IF includes(arr, v)
    THEN (CHOOSE i \in 1..Len(arr) :
            arr[i] = v /\ \A j \in 1..(i - 1) : arr[j] # v) - 1
    ELSE -1

\* Element i (0-based, as in the code) of a JS array held as a sequence.
At(arr, i) == arr[i + 1]

\* arr with arr[i] = v (0-based).
Put(arr, i, v) == [arr EXCEPT ![i + 1] = v]

\* Variant of oneHot: the columns are counted from 1.
oneHotDepthShift(indices, depth) ==
  [i \in 1..Len(indices) |->
     [c \in 0..(depth - 1) |-> IF c = indices[i] + 1 THEN 1 ELSE 0]]

\* tf.oneHot(indices, depth): one row per index, depth columns, a 1 in the
\* column named by the index and 0 elsewhere.
oneHot(indices, depth) ==
  [i \in 1..Len(indices) |->
     [c \in 0..(depth - 1) |-> IF c = indices[i] THEN 1 ELSE 0]]

LogEvent(msg) == [name |-> "log", msg |-> msg, num |-> 0]
ShapeEvent(n) == [name |-> "log", msg |-> "Features stack", num |-> n]
ProgressEvent(e) == [name |-> "updateProgress", msg |-> "", num |-> e]
CompletedEvent == [name |-> "learnCompleted", msg |-> "", num |-> 0]

\* A line of console output; num carries the number the line reports.
Line(msg, num) == [msg |-> msg, num |-> num]

\* console.log / console.error of each line of ls, in order.
Logged(r, ls) == console[r] \o ls

\* Variant of Emitted: socket.emit without the if (socket) guard.
EmittedUnguarded(r, evs) == emitted[r] \o evs

\* if (socket) { socket.emit(...) } for each event of evs, in order.
Emitted(r, evs) == IF socket[r] THEN emitted[r] \o evs ELSE emitted[r]

\* The process hosting run r is still running.
processAlive(r) == host[r] \in alive

\* Where an invocation is in the middle of a synchronous stretch of code: the
\* handler before its call, the .then callback of the glob, the continuation
\* after the backbone has loaded.
Busy == {"idle", "forEach", "shuffle", "predict"}

\* A process runs one callback at a time: while an invocation of the same
\* process is in a synchronous stretch nothing else of that process runs.
Blocked(r) == \E q \in RunIds \ {r} : host[q] = host[r] /\ pc[q] \in Busy

\* Lockstep scheduling of two runs (used to compare a run with and without
\* an observer); with turn = 0 every run is free to move.
Sched(r) ==
  /\ processAlive(r)
  /\ ~Blocked(r)
  /\ turn \in {0, r}
  /\ turn' = IF turn = 0 THEN 0 ELSE 3 - r

\* The .catch handler of folderToTensors: console.error, reject() with no
\* reason, process.exit(1).  The process ends synchronously, so the awaiting
\* learnTransferModel never resumes and its promise stays pending.  said is
\* what the .then callback had logged before it threw.
Caught(r, said) ==
  /\ pc' = [pc EXCEPT ![r] = "exited"]
  /\ console' = [console EXCEPT ![r] =
                   Logged(r, said \o <<Line("Failed to access files", 0)>>)]
  /\ loaded' = [loaded EXCEPT ![r] = "rejected"]
  /\ alive' = alive \ {host[r]}

\* The extensions of the pattern `${dirPath}/*/*.@(png|jpeg|jpg|bmp)`.
Extensions == {"png", "jpeg", "jpg", "bmp"}

\* Variant of Matches: the pattern is **/*.@(png|jpeg|jpg|bmp).
MatchesAnyDepth(e) == ~e.hidden /\ e.ext \in Extensions

\* The pattern matches an entry exactly two path segments below dirPath whose
\* name ends in one of the extensions; `*` matches no segment that starts
\* with a dot (glob's default, dot: false).
Matches(e) == e.depth = 1 /\ ~e.hidden /\ e.ext \in Extensions

\* What glob resolves with for the entries t, in listing order, as the
\* forEach callback sees a path: path.basename(path.dirname(file)) and
\* whether the file decodes.
RECURSIVE Glob(_)
Glob(t) ==
  IF t = <<>> THEN <<>>
  ELSE LET e == Head(t)
       IN IF Matches(e) THEN <<[dir |-> e.dir, ok |-> e.ok]>> \o Glob(Tail(t))
          ELSE Glob(Tail(t))

\* A folder that holds exactly the files f, each an image in a label folder.
Listed(f) ==
  [k \in 1..Len(f) |->
     [depth |-> 1, dir |-> f[k].dir, hidden |-> FALSE, ext |-> "png", ok |-> f[k].ok]]

\* ------------------------------------------------------------------- Init

InitRun ==
  /\ dirs = [r \in RunIds |-> <<>>]
  /\ XS = [r \in RunIds |-> <<>>]
  /\ YS = [r \in RunIds |-> <<>>]
  /\ pos = [r \in RunIds |-> 0]
  /\ counter = [r \in RunIds |-> 0]
  /\ X = [r \in RunIds |-> <<>>]
  /\ Y = [r \in RunIds |-> <<>>]
  /\ loaded = [r \in RunIds |-> "pending"]
  /\ epoch = [r \in RunIds |-> 0]
  /\ emitted = [r \in RunIds |-> <<>>]
  /\ outcome = [r \in RunIds |-> "pending"]
  /\ alive = {1, 2}
  /\ tape = <<>>
  /\ console = [r \in RunIds |-> <<>>]
  /\ live = [r \in RunIds |-> {}]
  /\ connected = [r \in RunIds |-> TRUE]

\* No file request is followed.
NoRequests ==
  /\ disk = <<>>
  /\ req = <<>>
  /\ at = <<>>
  /\ folder = <<>>
  /\ replies = <<>>
  /\ touched = {}

\* No call of shuffleCombo is followed.
NoShuffle == given = <<>> /\ execs = {}

\* No pixel is followed.
NoPixel == px = [raw |-> 0, num |-> 0, den |-> 1] /\ pxStage = "none"

\* The state of what the pipeline itself never writes.
InitAside == NoPixel /\ NoShuffle /\ NoRequests

\* One invocation, with or without a socket; run 2 is never invoked.
Init ==
  /\ InitRun
  /\ InitAside
  /\ pc = [r \in RunIds |-> IF r = 1 THEN "idle" ELSE "absent"]
  /\ turn = 0
  /\ host = [r \in RunIds |-> 1]
  /\ \E s \in BOOLEAN, g \in BOOLEAN, m \in BOOLEAN,
        f \in SeqsUpTo(FileKinds, MaxFiles) :
       /\ (~g => f = <<>>)
       /\ socket = [r \in RunIds |-> r = 1 /\ s]
       /\ globOk = [r \in RunIds |-> r # 1 \/ g]
       /\ modelOk = [r \in RunIds |-> r # 1 \/ m]
       /\ files = [r \in RunIds |-> IF r = 1 THEN f ELSE <<>>]
  /\ tree = [r \in RunIds |-> Listed(files[r])]

\* ---------------------------------------------------------------- actions

\* learnTransferModel up to its first await: emits 'loading images' and calls
\* folderToTensors, whose executor starts the glob.
LearnTransferModel(r) ==
  /\ Sched(r)
  /\ pc[r] = "idle"
  /\ pc' = [pc EXCEPT ![r] = "glob"]
  /\ emitted' = [emitted EXCEPT ![r] = Emitted(r, <<LogEvent("loading images")>>)]
  /\ console' = [console EXCEPT ![r] = Logged(r, <<Line("Loading images", 0),
                                              Line("Identifying Image List", 0)>>)]
  /\ UNCHANGED <<inputs, aside, live, dirs, XS, YS, pos, counter, X, Y, loaded, epoch,
                 outcome, alive, tape>>

\* Variant of GlobResolve: only the number of files is logged.
GlobResolveCountOnly(r) ==
  /\ Sched(r)
  /\ pc[r] = "glob"
  /\ globOk[r]
  /\ pc' = [pc EXCEPT ![r] = "forEach"]
  /\ console' = [console EXCEPT ![r] = Logged(r, <<Line("Files Found", Len(files[r]))>>)]
  /\ UNCHANGED <<inputs, aside, live, dirs, XS, YS, pos, counter, X, Y, loaded, epoch,
                 emitted, outcome, alive, tape>>

\* The glob promise resolves: the .then callback starts with the file list.
GlobResolve(r) ==
  /\ Sched(r)
  /\ pc[r] = "glob"
  /\ globOk[r]
  /\ pc' = [pc EXCEPT ![r] = "forEach"]
  /\ console' = [console EXCEPT ![r] = Logged(r, <<Line("Files Found", Len(files[r])),
                                              Line("Now converting to tensors", 0)>>)]
  /\ UNCHANGED <<inputs, aside, live, dirs, XS, YS, pos, counter, X, Y, loaded, epoch,
                 emitted, outcome, alive, tape>>

\* The glob promise rejects: the .catch handler runs.
GlobReject(r) ==
  /\ Sched(r)
  /\ pc[r] = "glob"
  /\ ~globOk[r]
  /\ Caught(r, <<>>)
  /\ UNCHANGED <<inputs, aside, live, dirs, XS, YS, pos, counter, X, Y, epoch, emitted,
                 outcome, tape>>

\* Variant of ForEachFile: a file that does not decode is skipped.
ForEachFileSkipsUndecodable(r) ==
  /\ Sched(r)
  /\ pc[r] = "forEach"
  /\ pos[r] < Len(files[r])
  /\ LET file == files[r][pos[r] + 1]
         dir == file.dir
         dirs1 == IF ~includes(dirs[r], dir) THEN Append(dirs[r], dir) ELSE dirs[r]
         answer == indexOf(dirs1, dir)
     IN /\ dirs' = [dirs EXCEPT ![r] = dirs1]
        /\ pos' = [pos EXCEPT ![r] = pos[r] + 1]
        /\ YS' = [YS EXCEPT ![r] = IF file.ok THEN Append(YS[r], answer) ELSE YS[r]]
        /\ XS' = [XS EXCEPT ![r] = IF file.ok THEN Append(XS[r], pos[r] + 1) ELSE XS[r]]
        /\ live' = [live EXCEPT ![r] = IF file.ok THEN live[r] \cup {"XS"} ELSE live[r]]
        /\ UNCHANGED <<pc, loaded, alive, console>>
  /\ UNCHANGED <<inputs, aside, counter, X, Y, epoch, emitted, outcome, tape>>

\* Variant of ForEachFile: the label list is one array of the module, shared
\* by every invocation.
ForEachFileSharedDirs(r) ==
  /\ Sched(r)
  /\ pc[r] = "forEach"
  /\ pos[r] < Len(files[r])
  /\ LET file == files[r][pos[r] + 1]
         dir == file.dir
         dirs1 == IF ~includes(dirs[r], dir) THEN Append(dirs[r], dir) ELSE dirs[r]
         answer == indexOf(dirs1, dir)
     IN /\ dirs' = [q \in RunIds |-> dirs1]
        /\ IF file.ok
             THEN /\ YS' = [YS EXCEPT ![r] = Append(YS[r], answer)]
                  /\ XS' = [XS EXCEPT ![r] = Append(XS[r], pos[r] + 1)]
                  /\ pos' = [pos EXCEPT ![r] = pos[r] + 1]
                  /\ live' = [live EXCEPT ![r] = live[r] \cup {"XS"}]
                  /\ UNCHANGED <<pc, loaded, alive, console>>
             ELSE /\ Caught(r, <<>>)
                  /\ UNCHANGED <<XS, YS, pos, live>>
  /\ UNCHANGED <<inputs, aside, counter, X, Y, epoch, emitted, outcome, tape>>

\* Variant of ForEachFile: the label index is pushed before the file is
\* decoded.
ForEachFileLabelFirst(r) ==
  /\ Sched(r)
  /\ pc[r] = "forEach"
  /\ pos[r] < Len(files[r])
  /\ LET file == files[r][pos[r] + 1]
         dir == file.dir
         dirs1 == IF ~includes(dirs[r], dir) THEN Append(dirs[r], dir) ELSE dirs[r]
         answer == indexOf(dirs1, dir)
     IN /\ dirs' = [dirs EXCEPT ![r] = dirs1]
        /\ YS' = [YS EXCEPT ![r] = Append(YS[r], answer)]
        /\ IF file.ok
             THEN /\ XS' = [XS EXCEPT ![r] = Append(XS[r], pos[r] + 1)]
                  /\ pos' = [pos EXCEPT ![r] = pos[r] + 1]
                  /\ live' = [live EXCEPT ![r] = live[r] \cup {"XS"}]
                  /\ UNCHANGED <<pc, loaded, alive, console>>
             ELSE /\ Caught(r, <<>>)
                  /\ UNCHANGED <<XS, pos, live>>
  /\ UNCHANGED <<inputs, aside, counter, X, Y, epoch, emitted, outcome, tape>>

\* One call of the forEach callback, for the next enumerated file: the label
\* name is pushed when new, the file is decoded, then label index and tensor
\* are pushed.  fileToTensor throws on bytes tf.node.decodeImage rejects; the
\* exception leaves the .then callback and the .catch handler runs.
ForEachFile(r) ==
  /\ Sched(r)
  /\ pc[r] = "forEach"
  /\ pos[r] < Len(files[r])
  /\ LET file == files[r][pos[r] + 1]
         dir == file.dir
         dirs1 == IF ~includes(dirs[r], dir) THEN Append(dirs[r], dir) ELSE dirs[r]
         answer == indexOf(dirs1, dir)
     IN /\ dirs' = [dirs EXCEPT ![r] = dirs1]
        /\ IF file.ok
             THEN /\ YS' = [YS EXCEPT ![r] = Append(YS[r], answer)]
                  /\ XS' = [XS EXCEPT ![r] = Append(XS[r], pos[r] + 1)]
                  /\ pos' = [pos EXCEPT ![r] = pos[r] + 1]
                  /\ live' = [live EXCEPT ![r] = live[r] \cup {"XS"}]
                  /\ UNCHANGED <<pc, loaded, alive, console>>
             ELSE /\ Caught(r, <<>>)
                  /\ UNCHANGED <<XS, YS, pos, live>>
  /\ UNCHANGED <<inputs, aside, counter, X, Y, epoch, emitted, outcome, tape>>

\* forEach has returned; shuffleCombo(XS, YS) is entered: counter is set and
\* console.assert prints when the lengths differ (it does not throw).
ShuffleBegin(r) ==
  /\ Sched(r)
  /\ pc[r] = "forEach"
  /\ pos[r] = Len(files[r])
  /\ counter' = [counter EXCEPT ![r] = Len(XS[r])]
  /\ pc' = [pc EXCEPT ![r] = "shuffle"]
  /\ console' = [console EXCEPT ![r] =
                   IF Len(XS[r]) = Len(YS[r]) THEN console[r]
                   ELSE Logged(r, <<Line("Assertion failed", 0)>>)]
  /\ UNCHANGED <<inputs, aside, live, dirs, XS, YS, pos, X, Y, loaded, epoch, emitted,
                 outcome, alive, tape>>

\* Variant of randomIndex: the index is drawn below the position it is
\* swapped with, never that position itself.
randomIndexBelow(c) == IF c = 1 THEN {0} ELSE 0..(c - 2)

\* The values index = (Math.random() * counter) | 0 can take: Math.random()
\* lies in [0, 1), so every integer of 0..counter-1 and no other, each for
\* an interval of Math.random() of the same length 1 / counter.  c is the
\* value of counter before the decrement.
randomIndex(c) == 0..(c - 1)

\* Variant of swap: the assignment array[index] = temp is missing.
swapOverwrites(array, c, index) == Put(array, c, At(array, index))

\* temp = array[counter]; array[counter] = array[index]; array[index] = temp
swap(array, c, index) == Put(Put(array, c, At(array, index)), index, At(array, c))

\* In lockstep a run whose draw the tape already holds gets the tape's value.
Draws(r) ==
  LET k == Len(XS[r]) - counter[r] + 1
  IN IF turn # 0 /\ k <= Len(tape) THEN {tape[k]} ELSE randomIndex(counter[r])

\* Variant of ShuffleStep: only the image array is swapped.
ShuffleStepImagesOnly(r) ==
  /\ Sched(r)
  /\ pc[r] = "shuffle"
  /\ counter[r] > 0
  /\ \E index \in Draws(r) :
       LET c == counter[r] - 1
           temp == At(XS[r], c)
       IN /\ counter' = [counter EXCEPT ![r] = c]
          /\ XS' = [XS EXCEPT ![r] = Put(Put(XS[r], c, At(XS[r], index)), index, temp)]
          /\ UNCHANGED YS
          /\ tape' = IF turn # 0 /\ Len(XS[r]) - counter[r] + 1 > Len(tape)
                       THEN Append(tape, index) ELSE tape
  /\ UNCHANGED <<inputs, aside, console, live, pc, dirs, pos, X, Y, loaded, epoch, emitted, outcome,
                 alive>>

\* Variant of ShuffleStep: the index is drawn over the whole array.
ShuffleStepDrawsAnywhere(r) ==
  /\ Sched(r)
  /\ pc[r] = "shuffle"
  /\ counter[r] > 0
  /\ \E index \in 0..(Len(XS[r]) - 1) :
       LET c == counter[r] - 1
       IN /\ counter' = [counter EXCEPT ![r] = c]
          /\ XS' = [XS EXCEPT ![r] = swap(XS[r], c, index)]
          /\ YS' = [YS EXCEPT ![r] = swap(YS[r], c, index)]
          /\ UNCHANGED tape
  /\ UNCHANGED <<inputs, aside, console, live, pc, dirs, pos, X, Y, loaded, epoch,
                 emitted, outcome, alive>>

\* One iteration of shuffleCombo's while loop.
ShuffleStep(r) ==
  /\ Sched(r)
  /\ pc[r] = "shuffle"
  /\ counter[r] > 0
  /\ \E index \in Draws(r) :
       LET c == counter[r] - 1
       IN /\ counter' = [counter EXCEPT ![r] = c]
          /\ XS' = [XS EXCEPT ![r] = swap(XS[r], c, index)]
          /\ YS' = [YS EXCEPT ![r] = swap(YS[r], c, index)]
          /\ tape' = IF turn # 0 /\ Len(XS[r]) - counter[r] + 1 > Len(tape)
                       THEN Append(tape, index) ELSE tape
  /\ UNCHANGED <<inputs, aside, console, live, pc, dirs, pos, X, Y, loaded, epoch, emitted, outcome,
                 alive>>

\* Variant of Stack: an empty list of tensors is stacked and resolved.
StackAcceptsEmpty(r) ==
  /\ Sched(r)
  /\ pc[r] = "shuffle"
  /\ counter[r] = 0
  /\ X' = [X EXCEPT ![r] = XS[r]]
  /\ Y' = [Y EXCEPT ![r] = oneHot(YS[r], Len(dirs[r]))]
  /\ loaded' = [loaded EXCEPT ![r] = "resolved"]
  /\ pc' = [pc EXCEPT ![r] = "loaded"]
  /\ console' = [console EXCEPT ![r] =
                   Logged(r, <<Line("Stacking", 0),
                                 Line("Images all converted to tensors:", 0),
                                 Line("X", Len(XS[r])), Line("Y", Len(YS[r]))>>)]
  /\ live' = [live EXCEPT ![r] = (live[r] \cup {"Y", "XNORM"}) \ {"XS"}]
  /\ UNCHANGED alive
  /\ UNCHANGED <<inputs, aside, dirs, XS, YS, pos, counter, epoch, emitted, outcome,
                 tape>>

\* shuffleCombo has returned: tf.stack(XS), tf.oneHot(YS, dirs.length),
\* XNORM = X.div(255), tf.dispose([XS, X]), resolve([XNORM, Y, dirs]).  tf.stack rejects an empty list of tensors
\* ('Pass at least one tensor to tf.stack'); the exception leaves the .then
\* callback and the .catch handler runs.
Stack(r) ==
  /\ Sched(r)
  /\ pc[r] = "shuffle"
  /\ counter[r] = 0
  /\ IF Len(XS[r]) = 0
       THEN /\ Caught(r, <<Line("Stacking", 0)>>)
            /\ UNCHANGED <<X, Y, live>>
       ELSE /\ X' = [X EXCEPT ![r] = XS[r]]
            /\ Y' = [Y EXCEPT ![r] = oneHot(YS[r], Len(dirs[r]))]
            /\ loaded' = [loaded EXCEPT ![r] = "resolved"]
            /\ pc' = [pc EXCEPT ![r] = "loaded"]
            /\ console' = [console EXCEPT ![r] =
                   Logged(r, <<Line("Stacking", 0),
                                 Line("Images all converted to tensors:", 0),
                                 Line("X", Len(XS[r])), Line("Y", Len(YS[r]))>>)]
            /\ live' = [live EXCEPT ![r] = (live[r] \cup {"Y", "XNORM"}) \ {"XS"}]
            /\ UNCHANGED alive
  /\ UNCHANGED <<inputs, aside, dirs, XS, YS, pos, counter, epoch, emitted, outcome,
                 tape>>

\* learnTransferModel resumes after await folderToTensors: emits 'loading
\* model' and starts tf.loadGraphModel.
LoadModel(r) ==
  /\ Sched(r)
  /\ pc[r] = "loaded"
  /\ emitted' = [emitted EXCEPT ![r] = Emitted(r, <<LogEvent("loading model")>>)]
  /\ pc' = [pc EXCEPT ![r] = "loadModel"]
  /\ console' = [console EXCEPT ![r] = Logged(r, <<Line("Loading model", 0)>>)]
  /\ UNCHANGED <<inputs, aside, live, dirs, XS, YS, pos, counter, X, Y, loaded, epoch,
                 outcome, alive, tape>>

\* tf.loadGraphModel resolves: the classifier head is defined and 'creating
\* features' is emitted.
LoadModelResolve(r) ==
  /\ Sched(r)
  /\ pc[r] = "loadModel"
  /\ modelOk[r]
  /\ emitted' = [emitted EXCEPT ![r] = Emitted(r, <<LogEvent("creating features")>>)]
  /\ pc' = [pc EXCEPT ![r] = "predict"]
  /\ console' = [console EXCEPT ![r] = Logged(r, <<Line("Creating features from images", 0)>>)]
  /\ UNCHANGED <<inputs, aside, live, dirs, XS, YS, pos, counter, X, Y, loaded, epoch,
                 outcome, alive, tape>>

\* Variant of LoadModelReject: the load is tried again.
LoadModelRejectRetries(r) ==
  /\ Sched(r)
  /\ pc[r] = "loadModel"
  /\ ~modelOk[r]
  /\ pc' = [pc EXCEPT ![r] = "loaded"]
  /\ UNCHANGED <<inputs, aside, console, live, dirs, XS, YS, pos, counter, X, Y, loaded, epoch,
                 emitted, outcome, alive, tape>>

\* tf.loadGraphModel rejects: the await throws and the promise of
\* learnTransferModel is rejected with the loader's error.
LoadModelReject(r) ==
  /\ Sched(r)
  /\ pc[r] = "loadModel"
  /\ ~modelOk[r]
  /\ outcome' = [outcome EXCEPT ![r] = "rejected"]
  /\ pc' = [pc EXCEPT ![r] = "rejected"]
  /\ UNCHANGED <<inputs, aside, console, live, dirs, XS, YS, pos, counter, X, Y, loaded, epoch,
                 emitted, alive, tape>>

\* featureModel.predict(X); the feature shape is emitted; compile, evaluate,
\* and fit is called.
Predict(r) ==
  /\ Sched(r)
  /\ pc[r] = "predict"
  /\ emitted' = [emitted EXCEPT ![r] = Emitted(r, <<ShapeEvent(Len(X[r]))>>)]
  /\ epoch' = [epoch EXCEPT ![r] = 0]
  /\ pc' = [pc EXCEPT ![r] = "fit"]
  /\ console' = [console EXCEPT ![r] = Logged(r, <<Line("Features stack", Len(X[r])),
                                              Line("evaluate", 0)>>)]
  /\ live' = [live EXCEPT ![r] = live[r] \cup {"featureX"}]
  /\ UNCHANGED <<inputs, aside, dirs, XS, YS, pos, counter, X, Y, loaded, outcome,
                 alive, tape>>

\* Variant of EpochEnd: the progress payload is counted from 1.
EpochEndOneBased(r) ==
  /\ Sched(r)
  /\ pc[r] = "fit"
  /\ epoch[r] < epochs
  /\ emitted' = [emitted EXCEPT ![r] = Emitted(r, <<ProgressEvent(epoch[r] + 1)>>)]
  /\ epoch' = [epoch EXCEPT ![r] = epoch[r] + 1]
  /\ console' = [console EXCEPT ![r] = Logged(r, <<Line("epoch", epoch[r])>>)]
  /\ UNCHANGED <<inputs, aside, live, pc, dirs, XS, YS, pos, counter, X, Y, loaded, outcome,
                 alive, tape>>

\* fit trains one epoch and calls onEpochEnd(epoch), which emits
\* 'updateProgress' with the epoch index.
EpochEnd(r) ==
  /\ Sched(r)
  /\ pc[r] = "fit"
  /\ epoch[r] < epochs
  /\ emitted' = [emitted EXCEPT ![r] = Emitted(r, <<ProgressEvent(epoch[r])>>)]
  /\ epoch' = [epoch EXCEPT ![r] = epoch[r] + 1]
  /\ console' = [console EXCEPT ![r] = Logged(r, <<Line("epoch", epoch[r])>>)]
  /\ UNCHANGED <<inputs, aside, live, pc, dirs, XS, YS, pos, counter, X, Y, loaded, outcome,
                 alive, tape>>

\* Variant of FitResolve: 'learnCompleted' is emitted before 'learned'.
FitResolveCompletedFirst(r) ==
  /\ Sched(r)
  /\ pc[r] = "fit"
  /\ epoch[r] = epochs
  /\ emitted' = [emitted EXCEPT ![r] = Emitted(r, <<CompletedEvent, LogEvent("learned")>>)]
  /\ outcome' = [outcome EXCEPT ![r] = "resolved"]
  /\ pc' = [pc EXCEPT ![r] = "done"]
  /\ console' = [console EXCEPT ![r] = Logged(r, <<Line("learned!", 0)>>)]
  /\ UNCHANGED <<inputs, aside, live, dirs, XS, YS, pos, counter, X, Y, loaded, epoch,
                 alive, tape>>

\* fit resolves after the last epoch: 'learned' and 'learnCompleted' are
\* emitted and learnTransferModel returns.
FitResolve(r) ==
  /\ Sched(r)
  /\ pc[r] = "fit"
  /\ epoch[r] = epochs
  /\ emitted' = [emitted EXCEPT ![r] = Emitted(r, <<LogEvent("learned"), CompletedEvent>>)]
  /\ outcome' = [outcome EXCEPT ![r] = "resolved"]
  /\ pc' = [pc EXCEPT ![r] = "done"]
  /\ console' = [console EXCEPT ![r] = Logged(r, <<Line("learned!", 0)>>)]
  /\ UNCHANGED <<inputs, aside, live, dirs, XS, YS, pos, counter, X, Y, loaded, epoch,
                 alive, tape>>

\* The caller of learnTransferModel neither awaits nor catches its promise,
\* so a rejection is an unhandled rejection.  What the runtime does with one
\* depends on its version and flags: it warns and goes on, ...
UnhandledRejectionWarns(r) ==
  /\ Sched(r)
  /\ pc[r] = "rejected"
  /\ pc' = [pc EXCEPT ![r] = "unhandled"]
  /\ UNCHANGED <<inputs, aside, console, live, dirs, XS, YS, pos, counter, X, Y, loaded, epoch,
                 emitted, outcome, alive, tape>>

\* ... or it ends the process.
UnhandledRejectionExits(r) ==
  /\ Sched(r)
  /\ pc[r] = "rejected"
  /\ pc' = [pc EXCEPT ![r] = "unhandled"]
  /\ alive' = alive \ {host[r]}
  /\ UNCHANGED <<inputs, aside, console, live, dirs, XS, YS, pos, counter, X, Y, loaded, epoch,
                 emitted, outcome, tape>>

Next ==
  \E r \in RunIds :
    \/ LearnTransferModel(r)
    \/ GlobResolve(r)
    \/ GlobReject(r)
    \/ ForEachFile(r)
    \/ ShuffleBegin(r)
    \/ ShuffleStep(r)
    \/ Stack(r)
    \/ LoadModel(r)
    \/ LoadModelResolve(r)
    \/ LoadModelReject(r)
    \/ Predict(r)
    \/ EpochEnd(r)
    \/ FitResolve(r)
    \/ UnhandledRejectionWarns(r)
    \/ UnhandledRejectionExits(r)

\* One invocation of learnTransferModel.
Spec == Init /\ [][Next]_vars

\* Two executions of learnTransferModel on the same files with the same
\* enumeration and backbone outcome, each in a process of its own: run 1 with
\* a socket, run 2 with socket = null.  They move in lockstep and the random
\* source returns the same values to both.
TwinInit ==
  /\ InitRun
  /\ InitAside
  /\ pc = [r \in RunIds |-> "idle"]
  /\ turn = 1
  /\ host = [r \in RunIds |-> r]
  /\ socket = [r \in RunIds |-> r = 1]
  /\ \E g \in BOOLEAN, m \in BOOLEAN, f \in SeqsUpTo(FileKinds, MaxFiles) :
       /\ (~g => f = <<>>)
       /\ globOk = [r \in RunIds |-> g]
       /\ modelOk = [r \in RunIds |-> m]
       /\ files = [r \in RunIds |-> f]
  /\ tree = [r \in RunIds |-> Listed(files[r])]

SpecTwin == TwinInit /\ [][Next]_vars

\* ----------------------------------------------------------------- server

\* What a project folder can hold when a request names it.
Project(f, g, m) == [files |-> f, globOk |-> g, modelOk |-> m]

Projects ==
  { Project(<<[dir |-> "catB", ok |-> TRUE], [dir |-> "catA", ok |-> TRUE]>>, TRUE, TRUE),
    Project(<<[dir |-> "catA", ok |-> TRUE]>>, TRUE, FALSE),
    Project(<<[dir |-> "catA", ok |-> FALSE]>>, TRUE, TRUE),
    Project(<<>>, FALSE, TRUE) }

\* The server process with its sockets connected and no request received yet;
\* each request will name one of the projects.
ServerInit ==
  /\ InitRun
  /\ InitAside
  /\ pc = [r \in RunIds |-> "absent"]
  /\ turn = 0
  /\ host = [r \in RunIds |-> 1]
  /\ socket = [r \in RunIds |-> TRUE]
  /\ \E p \in [RunIds -> Projects] :
       /\ files = [r \in RunIds |-> p[r].files]
       /\ globOk = [r \in RunIds |-> p[r].globOk]
       /\ modelOk = [r \in RunIds |-> p[r].modelOk]
  /\ tree = [r \in RunIds |-> Listed(files[r])]

\* socket.on('yourBeginLearnMsg'): the handler logs the project name and path
\* and is about to call learnTransferModel(projectPath, socket).  Nothing is
\* tested before the call and its promise is dropped.
BeginLearn(r) ==
  /\ Sched(r)
  /\ pc[r] = "absent"
  /\ pc' = [pc EXCEPT ![r] = "idle"]
  /\ console' = [console EXCEPT ![r] =
                   Logged(r, <<Line("projectName", 0), Line("projectPath", 0)>>)]
  /\ UNCHANGED <<inputs, aside, dirs, XS, YS, pos, counter, X, Y, loaded, epoch,
                 emitted, outcome, alive, tape, live>>

\* The client of request r goes away: events emitted on its socket from now
\* on reach nobody.  No handler is registered for 'disconnect'.
Disconnect(r) ==
  /\ processAlive(r)
  /\ ~Blocked(r)
  /\ pc[r] # "absent"
  /\ connected[r]
  /\ connected' = [connected EXCEPT ![r] = FALSE]
  /\ UNCHANGED <<inputs, pc, dirs, XS, YS, pos, counter, X, Y, loaded, epoch,
                 emitted, outcome, alive, tape, live, console, turn, px, pxStage,
                 given, execs, store>>

NextServer ==
  \/ Next
  \/ \E r \in RunIds : BeginLearn(r)
  \/ \E r \in RunIds : Disconnect(r)

\* The server handling up to two 'yourBeginLearnMsg' requests.
SpecServer == ServerInit /\ [][NextServer]_vars

\* ---------------------------------------------------------- a pixel's path

\* The largest value of a channel of a decoded image (unsigned 8 bits).
MaxPixel == 255

\* The literal both divisions divide by.
Divisor == 255

\* No invocation exists: the pipeline's state while a function is studied
\* on its own.
Parked ==
  /\ InitRun
  /\ pc = [r \in RunIds |-> "absent"]
  /\ turn = 0
  /\ host = [r \in RunIds |-> 1]
  /\ socket = [r \in RunIds |-> FALSE]
  /\ globOk = [r \in RunIds |-> TRUE]
  /\ modelOk = [r \in RunIds |-> TRUE]
  /\ files = [r \in RunIds |-> <<>>]
  /\ tree = [r \in RunIds |-> Listed(files[r])]

\* The state of the invocations, which a function studied on its own leaves
\* alone.
pipeline == <<inputs, connected, pc, dirs, XS, YS, pos, counter, X, Y, loaded,
              epoch, emitted, outcome, alive, tape, live, console, turn>>

\* t.div(255) on one element, as an exact fraction.
div(q, d) == [q EXCEPT !.den = q.den * d]

\* tf.node.decodeImage(rawimage, 3): a channel value of 0..MaxPixel.
NormInit ==
  /\ Parked
  /\ NoShuffle
  /\ NoRequests
  /\ \E v \in 0..MaxPixel : px = [raw |-> v, num |-> v, den |-> 1]
  /\ pxStage = "decodeImage"

\* tf.image.resizeBilinear: every output value is a weighted mean of decoded
\* values; the pixel followed lies in a patch of one colour and keeps its
\* value.
ResizeBilinear ==
  /\ pxStage = "decodeImage"
  /\ pxStage' = "resizeBilinear"
  /\ UNCHANGED <<px, pipeline, given, execs, store>>

\* fileToTensor: resizedTensor.div(tf.scalar(255)), cast to float32.
FileToTensorDiv ==
  /\ pxStage = "resizeBilinear"
  /\ px' = div(px, Divisor)
  /\ pxStage' = "fileToTensor"
  /\ UNCHANGED <<pipeline, given, execs, store>>

\* tf.stack(XS) copies the values into X.
StackPixel ==
  /\ pxStage = "fileToTensor"
  /\ pxStage' = "stack"
  /\ UNCHANGED <<px, pipeline, given, execs, store>>

\* XNORM = X.div(255), the array resolved to learnTransferModel and given to
\* featureModel.predict.
XnormDiv ==
  /\ pxStage = "stack"
  /\ px' = div(px, Divisor)
  /\ pxStage' = "XNORM"
  /\ UNCHANGED <<pipeline, given, execs, store>>

NextNorm ==
  \/ ResizeBilinear
  \/ FileToTensorDiv
  \/ StackPixel
  \/ XnormDiv

\* One decoded channel value followed to the array given to the backbone.
SpecNorm == NormInit /\ [][NextNorm]_vars

\* --------------------------------------------------- what the glob covers

\* The most entries a project folder holds.
MaxEntries == 2

\* An entry below the root: how many folders lie between the root and it,
\* the name of its parent folder, whether its name or its folder's name
\* starts with a dot, its extension, and whether it decodes.
Entry(depth, dir, hidden, ext) ==
  [depth |-> depth, dir |-> dir, hidden |-> hidden, ext |-> ext, ok |-> TRUE]

Entries ==
  { Entry(1, "catA", FALSE, "png"),
    Entry(1, "catB", FALSE, "jpg"),
    Entry(1, "catA", TRUE, "png"),
    Entry(0, "root", FALSE, "png"),
    Entry(2, "sub", FALSE, "bmp"),
    Entry(1, "catA", FALSE, "txt") }

\* One invocation on a project folder of any entries.
LoaderInit ==
  /\ InitRun
  /\ InitAside
  /\ pc = [r \in RunIds |-> IF r = 1 THEN "idle" ELSE "absent"]
  /\ turn = 0
  /\ host = [r \in RunIds |-> 1]
  /\ socket = [r \in RunIds |-> r = 1]
  /\ \E g \in BOOLEAN, m \in BOOLEAN, t \in SeqsUpTo(Entries, MaxEntries) :
       /\ (~g => t = <<>>)
       /\ globOk = [r \in RunIds |-> r # 1 \/ g]
       /\ modelOk = [r \in RunIds |-> r # 1 \/ m]
       /\ tree = [r \in RunIds |-> IF r = 1 THEN t ELSE <<>>]
  /\ files = [r \in RunIds |-> Glob(tree[r])]

SpecLoader == LoaderInit /\ [][Next]_vars

\* ------------------------------------------------- shuffleCombo by itself

\* The longest array shuffleCombo is studied on.
MaxShuffle == 4

\* The arrays that hold each of 1..n once.
Orderings(n) ==
  {a \in [1..n -> 1..n] : \A i, j \in 1..n : i # j => a[i] # a[j]}

\* The label of sample k in the second array.
LabelOf(k) == k % 2

\* One iteration of the while loop of an execution e that draws index.
Iterate(e, index) ==
  [array |-> swap(e.array, e.counter - 1, index),
   array2 |-> swap(e.array2, e.counter - 1, index),
   counter |-> e.counter - 1,
   draws |-> Append(e.draws, index)]

\* shuffleCombo(array, array2) is called on n distinguishable samples in any
\* order, with their labels: counter = array.length and nothing drawn yet.
ShuffleInit ==
  /\ Parked
  /\ NoPixel
  /\ NoRequests
  /\ \E n \in 0..MaxShuffle : given \in Orderings(n)
  /\ execs = {[array |-> given,
               array2 |-> [i \in 1..Len(given) |-> LabelOf(given[i])],
               counter |-> Len(given),
               draws |-> <<>>]}

\* Every execution takes one iteration of while (counter > 0), once for each
\* value its draw can have.
ShuffleComboStep ==
  /\ \E e \in execs : e.counter > 0
  /\ execs' = UNION {{Iterate(e, index) : index \in randomIndex(e.counter)} : e \in execs}
  /\ UNCHANGED <<pipeline, px, pxStage, given, store>>

NextShuffle == ShuffleComboStep

\* One call of shuffleCombo, followed over all the draws it can make.
SpecShuffle == ShuffleInit /\ [][NextShuffle]_vars

\* ------------------------------------------------------------ file paths
\* A path is the sequence of its segments below the root of the file system;
\* a segment is a sequence of pieces of text, so that "images-backup" is
\* <<"images", "-backup">> and starts with "images" as a string.

\* The segment "..".
Up == <<"..">>

\* The segments acc followed by segs, normalized as path.join does: ".."
\* removes the segment before it.
RECURSIVE Resolve(_, _)
Resolve(acc, segs) ==
  IF segs = <<>> THEN acc
  ELSE LET seg == Head(segs)
           acc1 == IF seg # Up THEN Append(acc, seg)
                   ELSE IF acc = <<>> THEN acc
                   ELSE SubSeq(acc, 1, Len(acc) - 1)
       IN Resolve(acc1, Tail(segs))

\* path.join(base, ...segs) for an absolute normalized base.
join(base, segs) == Resolve(base, segs)

\* The path as the string path.join returns: "/" before every segment.
RECURSIVE Str(_)
Str(path) == IF path = <<>> THEN <<>> ELSE <<"/">> \o Head(path) \o Str(Tail(path))

\* String.prototype.startsWith on two path strings.
startsWith(str, prefix) ==
  Len(prefix) <= Len(str) /\ SubSeq(str, 1, Len(prefix)) = prefix

\* path.dirname
dirname(path) == SubSeq(path, 1, Len(path) - 1)

\* const uploadDir = path.join(__dirname, '../images'), for a server file in
\* /app/src.
uploadDir == join(<< <<"app">>, <<"src">> >>, <<Up, <<"images">>>>)

\* The path check of the handlers: path.startsWith(uploadDir).
Checked(path) == startsWith(Str(path), Str(uploadDir))

\* ---------------------------------------------------------- file system

\* fs.existsSync
existsSync(path) == path \in DOMAIN disk

\* The file system d with path holding what.
With(d, path, what) ==
  [q \in DOMAIN d \cup {path} |-> IF q = path THEN what ELSE d[q]]

\* The paths of d at or below path.
Subtree(d, path) ==
  {q \in DOMAIN d : Len(path) <= Len(q) /\ SubSeq(q, 1, Len(path)) = path}

\* The file system d without the paths of gone.
Without(d, gone) == [q \in DOMAIN d \ gone |-> d[q]]

\* path and the folders above it.
Ancestors(path) == {SubSeq(path, 1, n) : n \in 1..Len(path)}

\* The file system d after the folders of Ancestors(path) that were missing
\* have been made (fs.ensureDir).
Ensured(d, path) ==
  [q \in DOMAIN d \cup Ancestors(path) |-> IF q \in DOMAIN d THEN d[q] ELSE "dir"]

\* The file system d after src and what lies below it has moved to dst.
Moved(d, src, dst) ==
  LET from == Subtree(d, src)
      To(q) == dst \o SubSeq(q, Len(src) + 1, Len(q))
      kept == Without(d, from)
  IN [q \in DOMAIN kept \cup {To(f) : f \in from} |->
        IF q \in DOMAIN kept THEN kept[q]
        ELSE d[CHOOSE f \in from : To(f) = q]]

\* The project folder of the examples.
projectDir == join(uploadDir, << <<"projects">>, <<"P">> >>)

\* What lies under /app when the server starts: a project with two labels
\* and an image, and next to the upload directory a folder "images-backup".
InitialDisk ==
  LET backup == << <<"app">>, <<"images", "-backup">> >>
      folders == Ancestors(join(projectDir, << <<"catA">> >>))
                   \cup {join(projectDir, << <<"catB">> >>)}
                   \cup Ancestors(join(uploadDir, << <<"verification">>, <<"P">> >>))
                   \cup Ancestors(<< <<"app">>, <<"src">> >>)
                   \cup {backup}
      images == {join(projectDir, << <<"catA">>, <<"img">> >>),
                 join(backup, << <<"img">> >>)}
  IN [q \in folders \cup images |-> IF q \in folders THEN "dir" ELSE "image"]

\* ------------------------------------------------------- file requests

\* The requests followed at once.
ReqIds == {1, 2}

\* A message of a client.  Every name is the list of the segments of the
\* string sent; name is labelName, sourceLabel, originalFolderName or the
\* path of GET /directory; imageName is also the fileName of an uploaded
\* file; complete is FALSE when a name is missing from the message.
Message(kind, name, targetLabel, complete) ==
  [kind |-> kind, projectName |-> << <<"P">> >>, name |-> name,
   targetLabel |-> targetLabel, imageName |-> << <<"img">> >>, complete |-> complete]

\* "../../../images-backup": from a project folder to the folder next to the
\* upload directory.
ToBackup == <<Up, Up, Up, <<"images", "-backup">>>>

\* "../../../src": from a project folder to the folder of the server.
ToSrc == <<Up, Up, Up, <<"src">>>>

Messages ==
  { Message("moveImage", << <<"catA">> >>, << <<"catB">> >>, TRUE),
    Message("moveImage", << <<"catA">> >>, << <<"catC">> >>, TRUE),
    Message("moveImage", << <<"catA">> >>, << <<"catB">> >>, FALSE),
    Message("moveImage", ToBackup, << <<"catB">> >>, TRUE),
    Message("moveImage", ToSrc, << <<"catB">> >>, TRUE),
    Message("deleteImage", << <<"catA">> >>, <<>>, TRUE),
    Message("deleteImage", ToBackup, <<>>, TRUE),
    Message("createLabel", << <<"catC">> >>, <<>>, TRUE),
    Message("createLabel", << <<"catB">> >>, <<>>, TRUE),
    Message("deleteLabel", << <<"catA">> >>, <<>>, TRUE),
    Message("deleteLabel", ToSrc, <<>>, TRUE),
    Message("uploadFolder", << <<"F">> >>, <<>>, TRUE),
    Message("directory", << <<"projects">> >>, <<>>, TRUE),
    Message("directory", <<Up, <<"images", "-backup">>>>, <<>>, TRUE) }

\* What the file handlers leave alone.
beside == <<pipeline, px, pxStage, given, execs, req>>

\* The server has started and two messages are on their way.
FilesInit ==
  /\ Parked
  /\ NoPixel
  /\ NoShuffle
  /\ disk = InitialDisk
  /\ req \in [ReqIds -> Messages]
  /\ at = [r \in ReqIds |-> "sent"]
  /\ folder = [r \in ReqIds |-> <<>>]
  /\ replies = [r \in ReqIds |-> <<>>]
  /\ touched = {}

\* The handler of request r hands paths to calls of the file system.
Touch(r, paths) ==
  touched' = touched \cup {[by |-> req[r].kind, path |-> q] : q \in paths}

\* socket.emit(name, ...) (res.json for GET /directory) ends the handler.
Reply(r, name) ==
  /\ replies' = [replies EXCEPT ![r] = Append(@, [name |-> name, folderName |-> folder[r]])]
  /\ at' = [at EXCEPT ![r] = "replied"]

\* The handler goes on after an await.
Await(r, place) ==
  /\ at' = [at EXCEPT ![r] = place]
  /\ UNCHANGED replies

\* A missing name makes path.join throw a TypeError outside any try: the
\* async handler ends with nothing emitted.
Throws(r) ==
  /\ at' = [at EXCEPT ![r] = "threw"]
  /\ UNCHANGED replies

\* sourcePath and targetPath of a moveImage message.
sourcePath(m) == join(uploadDir, << <<"projects">> >> \o m.projectName \o m.name \o m.imageName)
targetPath(m) ==
  join(uploadDir, << <<"projects">> >> \o m.projectName \o m.targetLabel \o m.imageName)

\* socket.on('moveImage') up to its first await.
MoveImage(r) ==
  /\ at[r] = "sent"
  /\ req[r].kind = "moveImage"
  /\ LET src == sourcePath(req[r])
         dst == targetPath(req[r])
     IN IF ~req[r].complete
          THEN Throws(r) /\ UNCHANGED touched
          ELSE IF ~Checked(src) \/ ~Checked(dst)
          THEN Reply(r, "moveImageError") /\ UNCHANGED touched
          ELSE IF ~existsSync(src)
          THEN Reply(r, "moveImageError") /\ Touch(r, {src})
          ELSE /\ Touch(r, {src, dirname(dst)})
               /\ Await(r, IF existsSync(dirname(dst)) THEN "move" ELSE "mkdir")
  /\ UNCHANGED <<beside, disk, folder>>

\* await fs.mkdir(path.dirname(targetPath)) settles: it throws when the
\* folder exists by now or its parent does not.
MoveImageMkdir(r) ==
  /\ at[r] = "mkdir"
  /\ req[r].kind = "moveImage"
  /\ LET dir == dirname(targetPath(req[r]))
     IN IF existsSync(dir) \/ ~existsSync(dirname(dir))
          THEN Reply(r, "moveImageError") /\ UNCHANGED disk
          ELSE Await(r, "move") /\ disk' = With(disk, dir, "dir")
  /\ UNCHANGED <<beside, folder, touched>>

\* await fs.move(sourcePath, targetPath) settles (fs-extra, overwrite: false):
\* it throws when the source is gone or the target exists, and makes the
\* folder of the target when it is missing.
MoveImageMove(r) ==
  /\ at[r] = "move"
  /\ req[r].kind = "moveImage"
  /\ LET src == sourcePath(req[r])
         dst == targetPath(req[r])
     IN /\ Touch(r, {src, dst})
        /\ IF ~existsSync(src) \/ existsSync(dst)
             THEN Reply(r, "moveImageError") /\ UNCHANGED disk
             ELSE /\ Reply(r, "moveImageSuccess")
                  /\ disk' = Moved(Ensured(disk, dirname(dst)), src, dst)
  /\ UNCHANGED <<beside, folder>>

\* filePath of a deleteImage message.
filePath(m) == join(uploadDir, << <<"projects">> >> \o m.projectName \o m.name \o m.imageName)

\* socket.on('deleteImage') up to its await.
DeleteImage(r) ==
  /\ at[r] = "sent"
  /\ req[r].kind = "deleteImage"
  /\ LET file == filePath(req[r])
     IN IF ~req[r].complete
          THEN Throws(r) /\ UNCHANGED touched
          ELSE IF ~Checked(file)
          THEN Reply(r, "deleteImageError") /\ UNCHANGED touched
          ELSE IF ~existsSync(file)
          THEN Reply(r, "deleteImageError") /\ Touch(r, {file})
          ELSE Await(r, "unlink") /\ Touch(r, {file})
  /\ UNCHANGED <<beside, disk, folder>>

\* await fs.unlink(filePath) settles: it throws when the file is gone or is
\* a folder.
DeleteImageUnlink(r) ==
  /\ at[r] = "unlink"
  /\ LET file == filePath(req[r])
     IN IF ~existsSync(file) \/ Subtree(disk, file) # {file}
          THEN Reply(r, "deleteImageError") /\ UNCHANGED disk
          ELSE Reply(r, "deleteImageSuccess") /\ disk' = Without(disk, {file})
  /\ UNCHANGED <<beside, folder, touched>>

\* labelDir of a createLabel or deleteLabel message.
labelDir(m) == join(uploadDir, << <<"projects">> >> \o m.projectName \o m.name)

\* socket.on('createLabel') up to its await.
CreateLabel(r) ==
  /\ at[r] = "sent"
  /\ req[r].kind = "createLabel"
  /\ LET dir == labelDir(req[r])
     IN IF ~req[r].complete
          THEN Throws(r) /\ UNCHANGED touched
          ELSE IF ~Checked(dir)
          THEN Reply(r, "createLabelError") /\ UNCHANGED touched
          ELSE IF existsSync(dir)
          THEN Reply(r, "createLabelError") /\ Touch(r, {dir})
          ELSE Await(r, "mkdirLabel") /\ Touch(r, {dir})
  /\ UNCHANGED <<beside, disk, folder>>

\* await fs.mkdir(labelDir) settles: it throws when the folder exists by now
\* or its parent does not.
CreateLabelMkdir(r) ==
  /\ at[r] = "mkdirLabel"
  /\ LET dir == labelDir(req[r])
     IN IF existsSync(dir) \/ ~existsSync(dirname(dir))
          THEN Reply(r, "createLabelError") /\ UNCHANGED disk
          ELSE Reply(r, "createLabelSuccess") /\ disk' = With(disk, dir, "dir")
  /\ UNCHANGED <<beside, folder, touched>>

\* socket.on('deleteLabel') up to its await.
DeleteLabel(r) ==
  /\ at[r] = "sent"
  /\ req[r].kind = "deleteLabel"
  /\ LET dir == labelDir(req[r])
     IN IF ~req[r].complete
          THEN Throws(r) /\ UNCHANGED touched
          ELSE IF ~Checked(dir)
          THEN Reply(r, "deleteLabelError") /\ UNCHANGED touched
          ELSE IF ~existsSync(dir)
          THEN Reply(r, "deleteLabelError") /\ Touch(r, {dir})
          ELSE Await(r, "rm") /\ Touch(r, {dir})
  /\ UNCHANGED <<beside, disk, folder>>

\* await fs.rm(labelDir, { recursive: true }) settles: it throws when the
\* folder is gone.
DeleteLabelRm(r) ==
  /\ at[r] = "rm"
  /\ LET dir == labelDir(req[r])
     IN IF ~existsSync(dir)
          THEN Reply(r, "deleteLabelError") /\ UNCHANGED disk
          ELSE Reply(r, "deleteLabelSuccess") /\ disk' = Without(disk, Subtree(disk, dir))
  /\ UNCHANGED <<beside, folder, touched>>

\* `${originalFolderName}-${counter}`, the text of counter being one piece.
Numbered(original, n) ==
  LET text == CASE n = 1 -> "-1" [] n = 2 -> "-2" [] OTHER -> "-3"
  IN [original EXCEPT ![Len(original)] = Append(@, text)]

\* uploadPath of an uploadFolder message for a folderName.
uploadPath(m, folderName) ==
  join(uploadDir, << <<"verification">> >> \o m.projectName \o folderName)

\* while (fs.existsSync(uploadPath)) { folderName = ...; counter++ }: the
\* folderName the loop that has come to counter n ends with.
RECURSIVE WhileExists(_, _, _)
WhileExists(m, folderName, n) ==
  IF existsSync(uploadPath(m, folderName))
    THEN WhileExists(m, Numbered(m.name, n), n + 1)
    ELSE folderName

\* The folder names the loop tests on its way to last.
RECURSIVE Tested(_, _, _)
Tested(m, folderName, n) ==
  {uploadPath(m, folderName)} \cup
    IF existsSync(uploadPath(m, folderName))
      THEN Tested(m, Numbered(m.name, n), n + 1) ELSE {}

\* What request r uploads.
Upload(r) == IF r = 1 THEN "upload1" ELSE "upload2"

\* socket.on('uploadFolder') up to its first await: a folder name that does
\* not exist is looked for, and fs.ensureDir is called.
UploadFolder(r) ==
  /\ at[r] = "sent"
  /\ req[r].kind = "uploadFolder"
  /\ folder' = [folder EXCEPT ![r] = WhileExists(req[r], req[r].name, 1)]
  /\ Touch(r, Tested(req[r], req[r].name, 1))
  /\ Await(r, "ensureDir")
  /\ UNCHANGED <<beside, disk>>

\* await fs.ensureDir(uploadPath) settles: the folder is there, made now or
\* found.
UploadFolderEnsureDir(r) ==
  /\ at[r] = "ensureDir"
  /\ disk' = Ensured(disk, uploadPath(req[r], folder[r]))
  /\ Await(r, "writeFile")
  /\ UNCHANGED <<beside, folder, touched>>

\* await Promise.all(files.map(... fs.writeFile(destination, fileData)))
\* settles: the file is written, over what a file of that name held.
UploadFolderWrite(r) ==
  /\ at[r] = "writeFile"
  /\ LET dir == uploadPath(req[r], folder[r])
         destination == join(dir, req[r].imageName)
     IN /\ Touch(r, {destination})
        /\ IF ~existsSync(dir)
             THEN Reply(r, "uploadFolderError") /\ UNCHANGED disk
             ELSE /\ Reply(r, "uploadFolderSuccess")
                  /\ disk' = With(disk, destination, Upload(r))
  /\ UNCHANGED <<beside, folder>>

\* directoryPath of a GET /directory request.
directoryPath(m) == join(uploadDir, m.name)

\* app.get('/directory') up to its await.
GetDirectory(r) ==
  /\ at[r] = "sent"
  /\ req[r].kind = "directory"
  /\ IF ~Checked(directoryPath(req[r]))
       THEN Reply(r, "400") /\ UNCHANGED touched
       ELSE Await(r, "readdir") /\ Touch(r, {directoryPath(req[r])})
  /\ UNCHANGED <<beside, disk, folder>>

\* await fs.readdir(directoryPath) settles: the entries are sent, or 500.
GetDirectoryRead(r) ==
  /\ at[r] = "readdir"
  /\ Reply(r, IF existsSync(directoryPath(req[r])) THEN "directoryContent" ELSE "500")
  /\ UNCHANGED <<beside, disk, folder, touched>>

NextFiles ==
  \E r \in ReqIds :
    \/ MoveImage(r)
    \/ MoveImageMkdir(r)
    \/ MoveImageMove(r)
    \/ DeleteImage(r)
    \/ DeleteImageUnlink(r)
    \/ CreateLabel(r)
    \/ CreateLabelMkdir(r)
    \/ DeleteLabel(r)
    \/ DeleteLabelRm(r)
    \/ UploadFolder(r)
    \/ UploadFolderEnsureDir(r)
    \/ UploadFolderWrite(r)
    \/ GetDirectory(r)
    \/ GetDirectoryRead(r)

\* The file handlers of the server answering two requests.
SpecFiles == FilesInit /\ [][NextFiles]_vars

\* ----------------------------------------- definitions the properties use

\* The stage of the run's state machine the invocation is in.
Stage(r) ==
  CASE pc[r] \in {"absent", "idle"} -> "Idle"
    [] pc[r] \in {"glob", "forEach", "shuffle", "loaded", "loadModel"} -> "Loading"
    [] pc[r] = "predict" -> "FeatureExtracting"
    [] pc[r] = "fit" -> "Training"
    [] pc[r] = "done" -> "Completed"
    [] pc[r] \in {"exited", "rejected", "unhandled"} -> "Failed"

\* The label index the loader gave the sample decoded from file k.
LabelIndexOfFile(r, k) == indexOf(dirs[r], files[r][k].dir)

IsProgress(e) == e.name = "updateProgress"
IsCompleted(e) == e.name = "learnCompleted"

\* The events of a whole run over n samples, as the observer should see them.
ExpectedEvents(n) ==
  <<LogEvent("loading images"), LogEvent("loading model"),
    LogEvent("creating features"), ShapeEvent(n)>>
  \o [e \in 1..epochs |-> ProgressEvent(e - 1)]
  \o <<LogEvent("learned"), CompletedEvent>>

\* ------------------------------------------------------------------ C1
\* C1: from the moment shuffleCombo is entered, through every iteration and
\* after it, the two sequences have the same length and for every position i
\* the label at i is the label index of the file whose image is at i: image
\* and label of a position come from the same original sample.
C1_PairingInvariant ==
  \A r \in RunIds :
    pc[r] \in {"shuffle", "loaded", "loadModel", "predict", "fit", "done"} =>
      /\ Len(XS[r]) = Len(YS[r])
      /\ \A i \in 1..Len(XS[r]) : YS[r][i] = LabelIndexOfFile(r, XS[r][i])

\* A finished shuffle that moved samples of different labels.
C1_Witness ==
  \E r \in RunIds :
    /\ pc[r] = "loaded"
    /\ \E i \in 1..Len(XS[r]) : XS[r][i] # i
    /\ \E i, j \in 1..Len(YS[r]) : YS[r][i] # YS[r][j]

\* ------------------------------------------------------------------ C2
\* C2: with an observer attached, the events emitted so far are always the
\* first events of: log 'loading images', log 'loading model', log 'creating
\* features', log of the feature shape, progress 0..99, log 'learned',
\* learnCompleted; and a run that completes has emitted exactly that list.
C2_EventOrder ==
  \A r \in RunIds :
    socket[r] =>
      LET want == ExpectedEvents(Len(X[r]))
      IN /\ Len(emitted[r]) <= Len(want)
         /\ \A i \in 1..Len(emitted[r]) : emitted[r][i] = want[i]
         /\ pc[r] = "done" => emitted[r] = want

\* A completed run with an observer.
C2_Witness ==
  \E r \in RunIds : socket[r] /\ pc[r] = "done" /\ Len(emitted[r]) = epochs + 6

\* ------------------------------------------------------------------ C3
\* C3: a run that completes has trained exactly 100 epochs; its progress
\* events carry 0, 1, ..., 99 in this order, exactly one completion event
\* follows them, and no progress event comes after the completion event.
C3_HundredEpochs ==
  \A r \in RunIds :
    LET P == SelectSeq(emitted[r], IsProgress)
        C == SelectSeq(emitted[r], IsCompleted)
    IN /\ Len(P) <= epochs
       /\ \A i \in 1..Len(P) : P[i].num = i - 1
       /\ Len(C) <= 1
       /\ \A i \in 1..Len(emitted[r]) :
            IsCompleted(emitted[r][i]) =>
              \A j \in (i + 1)..Len(emitted[r]) : ~IsProgress(emitted[r][j])
       /\ pc[r] = "done" => epoch[r] = epochs
       /\ pc[r] = "done" /\ socket[r] => Len(P) = epochs /\ Len(C) = 1
       /\ Len(C) = 1 => pc[r] = "done" /\ Len(P) = epochs

\* A completed run whose observer saw progress 99 and the completion event.
C3_Witness ==
  \E r \in RunIds :
    /\ pc[r] = "done"
    /\ \E i \in 1..Len(emitted[r]) : emitted[r][i] = ProgressEvent(epochs - 1)
    /\ emitted[r][Len(emitted[r])] = CompletedEvent

\* ------------------------------------------------------------------ C4
\* The next stage of each stage on the success path.
NextStage(s) ==
  CASE s = "Idle" -> "Loading"
    [] s = "Loading" -> "FeatureExtracting"
    [] s = "FeatureExtracting" -> "Training"
    [] s = "Training" -> "Completed"
    [] OTHER -> s

\* The step the run takes next is one that fails: the enumeration rejects,
\* the next file does not decode, there is nothing to stack, or the backbone
\* does not load.
FailureDue(r) ==
  \/ pc[r] = "glob" /\ ~globOk[r]
  \/ pc[r] = "forEach" /\ pos[r] < Len(files[r]) /\ ~files[r][pos[r] + 1].ok
  \/ pc[r] = "shuffle" /\ counter[r] = 0 /\ Len(XS[r]) = 0
  \/ pc[r] = "loadModel" /\ ~modelOk[r]

\* C4: every step keeps the run in its stage, moves it to the next stage of
\* Idle, Loading, FeatureExtracting, Training, Completed, or fails it; within
\* Training the epoch goes up by one from 0 to 99; a step that fails puts the
\* run in Failed; and a run in Failed stays there, emits nothing more and
\* runs no later stage.
C4_StageMachine ==
  [][\A r \in RunIds :
       /\ Stage(r)' \in {Stage(r), NextStage(Stage(r)), "Failed"}
       /\ Stage(r) \in {"Completed", "Failed"} => Stage(r)' = Stage(r)
       /\ Stage(r) = "Failed" =>
            /\ emitted'[r] = emitted[r]
            /\ epoch'[r] = epoch[r]
            /\ outcome'[r] # "resolved"
       /\ Stage(r) = "Training" /\ Stage(r)' = "Training" =>
            epoch'[r] \in {epoch[r], epoch[r] + 1} /\ epoch'[r] \in 0..epochs
       /\ Stage(r) = "Training" /\ Stage(r)' = "Completed" => epoch[r] = epochs
       /\ FailureDue(r) /\ pc'[r] # pc[r] => Stage(r)' = "Failed"
       /\ Stage(r)' = "Failed" /\ Stage(r) # "Failed" => FailureDue(r)
    ]_vars

\* A run that failed while loading the backbone after a successful load of
\* the images, and whose failure has been dealt with by the runtime.
C4_Witness ==
  \E r \in RunIds : pc[r] = "unhandled" /\ loaded[r] = "resolved" /\ Len(X[r]) > 1
\* ------------------------------------------------------------------ C5
\* C5: whenever a run has failed, the promise of learnTransferModel is
\* rejected (so its caller holds the error) and the process hosting the run
\* is still running.
C5_FailureReachesCaller ==
  \A r \in RunIds :
    Stage(r) = "Failed" => outcome[r] = "rejected" /\ processAlive(r)

\* ------------------------------------------------------------------ C6
\* C6: when the enumeration holds a file that does not decode, at whatever
\* position, folderToTensors never resolves, no later stage starts, forEach
\* never gets past that file, and once it has reached it the run has failed.
C6_NoPartialDataset ==
  \A r \in RunIds :
    \A k \in 1..Len(files[r]) :
      ~files[r][k].ok =>
        /\ loaded[r] # "resolved"
        /\ X[r] = <<>> /\ Y[r] = <<>>
        /\ pc[r] \in {"idle", "glob", "forEach", "exited"}
        /\ pos[r] < k
        /\ Len(XS[r]) < k
        /\ pc[r] = "exited" => loaded[r] = "rejected" /\ outcome[r] # "resolved"

\* A run that failed on a corrupt file that came after two valid ones.
C6_Witness ==
  \E r \in RunIds :
    /\ pc[r] = "exited"
    /\ Len(files[r]) >= 3
    /\ files[r][1].ok /\ files[r][2].ok /\ ~files[r][3].ok
    /\ pos[r] = 2

\* ------------------------------------------------------------------ C7
\* C7: when the enumeration yields no file, folderToTensors never resolves,
\* no model is loaded, no feature is extracted and no epoch is trained; the
\* run ends in the failure handler of the enumeration.
C7_EmptyInputFails ==
  \A r \in RunIds :
    pc[r] # "absent" /\ Len(files[r]) = 0 =>
      /\ pc[r] \in {"idle", "glob", "forEach", "shuffle", "exited"}
      /\ loaded[r] # "resolved"
      /\ epoch[r] = 0
      /\ Stage(r) \in {"Idle", "Loading", "Failed"}
      /\ pc[r] = "exited" => loaded[r] = "rejected"

\* The enumeration succeeded with no file and the run has failed.
C7_Witness ==
  \E r \in RunIds :
    globOk[r] /\ Len(files[r]) = 0 /\ pc[r] = "exited" /\ counter[r] = 0

\* ------------------------------------------------------------------ C8
\* The number of files the forEach callback has been called for: the files
\* completed, and the one whose decoding threw.
Seen(r) ==
  IF pc[r] = "exited" /\ pos[r] < Len(files[r]) THEN pos[r] + 1 ELSE pos[r]

\* Position (1-based) of the first of the enumerated files in directory d.
FirstFileIn(r, d) ==
  CHOOSE k \in 1..Len(files[r]) :
    files[r][k].dir = d /\ \A j \in 1..(k - 1) : files[r][j].dir # d

LabelsInOrder(r) ==
  /\ \A i, j \in 1..Len(dirs[r]) : i # j => dirs[r][i] # dirs[r][j]
  /\ {dirs[r][i] : i \in 1..Len(dirs[r])} = {files[r][k].dir : k \in 1..Seen(r)}
  /\ Len(dirs[r]) = Cardinality({files[r][k].dir : k \in 1..Seen(r)})
  /\ \A i, j \in 1..Len(dirs[r]) :
       i < j => FirstFileIn(r, dirs[r][i]) < FirstFileIn(r, dirs[r][j])
  /\ Len(YS[r]) = Len(XS[r])
  /\ \A i \in 1..Len(YS[r]) :
       /\ YS[r][i] \in 0..(Len(dirs[r]) - 1)
       /\ dirs[r][YS[r][i] + 1] = files[r][XS[r][i]].dir

\* C8: at every point of the load the label list holds the directory names
\* of the files seen so far, each once, in order of first appearance; its
\* length is the number of distinct names; every sample's label index is the
\* position of its directory in the list; and a step never moves a name of
\* the list to another index.
C8_FirstSeenLabels ==
  /\ [](\A r \in RunIds : LabelsInOrder(r))
  /\ [][\A r \in RunIds :
          /\ Len(dirs'[r]) >= Len(dirs[r])
          /\ \A i \in 1..Len(dirs[r]) : dirs'[r][i] = dirs[r][i]]_vars

\* Files catA/1, catB/2, catA/3 have been loaded: catA is 0 and catB is 1.
C8_Witness ==
  \E r \in RunIds :
    /\ pc[r] = "forEach" /\ pos[r] = 3
    /\ [k \in 1..3 |-> files[r][k].dir] = <<"catA", "catB", "catA">>
    /\ dirs[r] = <<"catA", "catB">>
    /\ YS[r] = <<0, 1, 0>>

\* ------------------------------------------------------------------ C9
\* C9: the label tensor folderToTensors resolves with has one row per
\* enumerated file and one column per distinct label; every entry is 0 or 1,
\* every row holds exactly one 1, and the 1 of row i is in the column of the
\* label index of the sample whose image is row i of the image tensor.
C9_OneHotRows ==
  \A r \in RunIds :
    loaded[r] = "resolved" =>
      LET numClasses == Cardinality({files[r][k].dir : k \in 1..Len(files[r])})
      IN /\ Len(Y[r]) = Len(files[r])
         /\ Len(X[r]) = Len(files[r])
         /\ \A i \in 1..Len(Y[r]) :
              /\ DOMAIN Y[r][i] = 0..(numClasses - 1)
              /\ \A c \in DOMAIN Y[r][i] : Y[r][i][c] \in {0, 1}
              /\ Cardinality({c \in DOMAIN Y[r][i] : Y[r][i][c] = 1}) = 1
              /\ LabelIndexOfFile(r, X[r][i]) \in DOMAIN Y[r][i]
              /\ Y[r][i][LabelIndexOfFile(r, X[r][i])] = 1

\* A resolved load of three samples of two labels that the shuffle reordered.
C9_Witness ==
  \E r \in RunIds :
    /\ loaded[r] = "resolved"
    /\ Len(Y[r]) = 3
    /\ Len(dirs[r]) = 2
    /\ X[r] # <<1, 2, 3>>
    /\ Y[r][1] # Y[r][3]

\* ----------------------------------------------------------------- C10
\* C10: of two executions on the same files with the same random draws, one
\* with an observer and one with socket = null, after the same number of
\* steps both are at the same place in the same stage with the same label
\* list, sequences, tensors, epoch and promise states; and the execution
\* without observer has delivered nothing.
C10_AbsentObserverIgnored ==
  /\ \A r \in RunIds : ~socket[r] => emitted[r] = <<>>
  /\ turn = 1 =>
       /\ pc[1] = pc[2]
       /\ Stage(1) = Stage(2)
       /\ outcome[1] = outcome[2]
       /\ loaded[1] = loaded[2]
       /\ dirs[1] = dirs[2]
       /\ XS[1] = XS[2] /\ YS[1] = YS[2]
       /\ X[1] = X[2] /\ Y[1] = Y[2]
       /\ epoch[1] = epoch[2]

\* Both executions have completed after a shuffle that reordered the samples;
\* the observer of the first has seen the whole run.
C10_Witness ==
  /\ turn = 1
  /\ pc[1] = "done" /\ pc[2] = "done"
  /\ socket[1] /\ ~socket[2]
  /\ Len(emitted[1]) > epochs
  /\ \E i \in 1..Len(X[2]) : X[2][i] # i

\* The run is between its start and its end.
InProgress(r) == Stage(r) \in {"Loading", "FeatureExtracting", "Training"}

\* ----------------------------------------------------------------- C11
\* C11: once a run has started, no message and no disconnection aborts it:
\* a run that is in progress is in a process that is still running, so its
\* next step can be taken.
C11_NothingAbortsRun == \A r \in RunIds : InProgress(r) => processAlive(r)

\* ----------------------------------------------------------------- C13
\* C13: at most one training run is in progress at any time.
C13_SingleRun == Cardinality({r \in RunIds : InProgress(r)}) <= 1

\* ----------------------------------------------------------------- C12
\* C12: the divide-by-255 normalization is applied exactly once: a decoded
\* value v ends up as v / 255 in the array handed to feature extraction.
C12_NormalizedOnce == pxStage = "XNORM" => px.num * Divisor = px.raw * px.den

\* ----------------------------------------------------------------- C14
\* The label list an invocation running alone holds after n of the files f.
RECURSIVE LabelList(_, _)
LabelList(f, n) ==
  IF n = 0 THEN <<>>
  ELSE LET prev == LabelList(f, n - 1)
       IN IF includes(prev, f[n].dir) THEN prev ELSE Append(prev, f[n].dir)

\* The step leaves invocation r where it is.
Quiet(r) == pc'[r] = pc[r] /\ pos'[r] = pos[r] /\ counter'[r] = counter[r]

\* C14: with two invocations overlapping in any way, the label list of each
\* is the list it builds alone from its own files, its label indices are the
\* positions in that list, its image sequence holds its own files once each,
\* and no step of another invocation changes its list, sequences or tensors.
C14_OwnedByInvocation ==
  /\ [](\A r \in RunIds :
         /\ dirs[r] = LabelList(files[r], Seen(r))
         /\ Len(XS[r]) = pos[r] /\ Len(YS[r]) = pos[r]
         /\ {XS[r][i] : i \in 1..Len(XS[r])} = 1..pos[r]
         /\ \A i \in 1..Len(YS[r]) :
              YS[r][i] = indexOf(LabelList(files[r], pos[r]), files[r][XS[r][i]].dir))
  /\ [][\A r \in RunIds :
          Quiet(r) => /\ dirs'[r] = dirs[r]
                      /\ XS'[r] = XS[r] /\ YS'[r] = YS[r]
                      /\ X'[r] = X[r] /\ Y'[r] = Y[r]]_vars

\* Two invocations in progress at once that have built different label lists.
C14_Witness ==
  /\ pc[1] = "fit" /\ epoch[1] > 0
  /\ pc[2] = "loaded"
  /\ dirs[1] = <<"catB", "catA">> /\ XS[1] = <<2, 1>> /\ YS[1] = <<1, 0>>
  /\ dirs[2] = <<"catA">> /\ YS[2] = <<0>>

\* ----------------------------------------------------------------- C15
RECURSIVE Factorial(_)
Factorial(n) == IF n <= 1 THEN 1 ELSE n * Factorial(n - 1)

\* Every execution has left the loop.
Shuffled == execs # {} /\ \A e \in execs : e.counter = 0

\* C15: shuffleCombo on N distinguishable samples has N! sequences of draws,
\* all equally likely (draw k is uniform over N - k + 1 values), and every
\* ordering of the samples is the result of exactly one of them, labels
\* moved with their samples.
C15_UniformShuffle ==
  Shuffled =>
    LET N == Len(given)
    IN /\ Cardinality(execs) = Factorial(N)
       /\ Cardinality({e.draws : e \in execs}) = Factorial(N)
       /\ \A e \in execs :
            /\ Len(e.draws) = N
            /\ \A k \in 1..N : e.draws[k] \in 0..(N - k)
            /\ \A i \in 1..N : e.array2[i] = LabelOf(e.array[i])
       /\ \A a \in Orderings(N) :
            Cardinality({e \in execs : e.array = a}) = 1

\* The executions on the longest array, given out of order, have finished.
C15_Witness ==
  /\ Shuffled
  /\ Len(given) = MaxShuffle
  /\ given[1] # 1
  /\ \E e \in execs : e.array = given
  /\ \E e \in execs : e.array = [i \in 1..MaxShuffle |-> i]

\* ----------------------------------------------------------------- C16
\* The step is an iteration of the loop of invocation r.
Iteration(r) ==
  pc[r] = "shuffle" /\ <<counter[r], XS[r], YS[r]>>' # <<counter[r], XS[r], YS[r]>>

\* The iteration brings the position counter to a value of lowest..N-1,
\* one below the value before, draws an index of 0..counter and swaps the
\* elements at counter and index in both sequences, touching nothing else.
SwapsAt(r, lowest) ==
  LET N == Len(XS[r])
      c == counter'[r]
      Swapped(a, index) ==
        [i \in 1..N |-> IF i = c + 1 THEN a[index + 1]
                         ELSE IF i = index + 1 THEN a[c + 1] ELSE a[i]]
  IN /\ pc'[r] = "shuffle"
     /\ c = counter[r] - 1
     /\ c \in lowest..(N - 1)
     /\ \E index \in 0..c :
          /\ XS'[r] = Swapped(XS[r], index)
          /\ YS'[r] = Swapped(YS[r], index)

\* The loop is left exactly when the counter is 0, and the counter never
\* leaves 0..N.
LoopBounded(r) ==
  pc[r] = "shuffle" =>
    /\ counter[r] \in 0..Len(XS[r])
    /\ Len(YS[r]) = Len(XS[r])
    /\ ENABLED ShuffleStep(r) => counter[r] > 0
    /\ ENABLED Stack(r) => counter[r] = 0

\* C16 as stated: the position counter goes from N-1 down to 1 and the loop
\* stops; each step swaps counter and a drawn index of 0..counter in both
\* sequences.
C16_CounterDownToOne ==
  /\ [](\A r \in RunIds : LoopBounded(r))
  /\ [][\A r \in RunIds : Iteration(r) => SwapsAt(r, 1)]_vars

\* C16, amended: the position counter goes from N-1 down to 0 (the last
\* iteration swaps position 0 with itself); each step lowers it by one and
\* swaps counter and a drawn index of 0..counter in both sequences; only
\* positions of 0..N-1 are touched; the counter, never below 0, bounds the
\* number of iterations by N for every N >= 0.
C16_CounterDownToZero ==
  /\ [](\A r \in RunIds : LoopBounded(r))
  /\ [][\A r \in RunIds : Iteration(r) => SwapsAt(r, 0)]_vars

\* The loop over three samples has run down to position 0 and has reordered
\* them.
C16_Witness ==
  \E r \in RunIds :
    /\ pc[r] = "shuffle" /\ counter[r] = 0
    /\ Len(XS[r]) = 3 /\ XS[r] # <<1, 2, 3>>

\* ----------------------------------------------------------------- C17
\* C17: at every point of the loading loop and at the call of shuffleCombo
\* the image sequence and the label sequence have the same length, the
\* number of files decoded so far; a file that fails to decode adds to
\* neither; and the length assertion of the shuffle never fails.
C17_SameLength ==
  \A r \in RunIds :
    /\ Len(XS[r]) = Len(YS[r])
    /\ pc[r] \in {"forEach", "shuffle", "exited"} => Len(XS[r]) = pos[r]
    /\ pc[r] = "shuffle" => counter[r] \in 0..Len(YS[r])
    /\ \A i \in 1..Len(console[r]) : console[r][i].msg # "Assertion failed"

\* shuffleCombo has just been called on three images and three labels.
C17_Witness ==
  \E r \in RunIds :
    /\ pc[r] = "shuffle"
    /\ counter[r] = 3 /\ Len(XS[r]) = 3 /\ Len(YS[r]) = 3
    /\ Len(console[r]) = 4

\* ----------------------------------------------------------------- C18
\* The entries one level below the root with an image extension.
ImageFiles(r) ==
  {k \in 1..Len(tree[r]) : tree[r][k].depth = 1 /\ tree[r][k].ext \in Extensions}

\* Those of them whose name and folder name do not start with a dot.
VisibleImageFiles(r) == {k \in ImageFiles(r) : ~tree[r][k].hidden}

\* The dataset of a finished load has one row for each entry of S and for no
\* other entry, and for every folder name as many rows labelled with it as
\* S has entries of that folder.
CoversExactly(r, S) ==
  loaded[r] = "resolved" =>
    /\ Len(X[r]) = Cardinality(S)
    /\ Len(Y[r]) = Cardinality(S)
    /\ \A d \in {tree[r][k].dir : k \in 1..Len(tree[r])} :
         Cardinality({i \in 1..Len(YS[r]) : dirs[r][YS[r][i] + 1] = d})
           = Cardinality({k \in S : tree[r][k].dir = d})

\* C18 as stated: the loader covers exactly the files one level below the
\* root whose extension is png, jpg, jpeg or bmp, each as one sample labelled
\* with its parent folder.
C18_CoversImageFiles == \A r \in RunIds : CoversExactly(r, ImageFiles(r))

\* C18, amended: the loader covers exactly the files one level below the
\* root whose extension is png, jpg, jpeg or bmp and whose name and folder
\* name do not start with a dot, each as one sample labelled with its parent
\* folder; files in the root, deeper files and other extensions give no
\* sample.
C18_CoversVisibleImageFiles ==
  \A r \in RunIds : CoversExactly(r, VisibleImageFiles(r))

\* A finished load of a folder holding an image of a label folder and an
\* entry the pattern does not match.
C18_Witness ==
  \E r \in RunIds :
    /\ loaded[r] = "resolved"
    /\ Len(tree[r]) = 2 /\ Len(X[r]) = 1
    /\ Matches(tree[r][1]) /\ tree[r][2].depth # 1

\* ----------------------------------------------------------------- C19
\* The places of the line msg in the console output of invocation r.
Places(r, msg) == {i \in 1..Len(console[r]) : console[r][i].msg = msg}

Scanning(r) == Places(r, "Identifying Image List")
Count(r) == Places(r, "Files Found")
Converting(r) == Places(r, "Now converting to tensors")

\* C19: 'scanning' is logged before the enumeration starts, the file count
\* once it has completed, with the number of enumerated files, 'converting'
\* after the count and before the first file is decoded; each of the three
\* at most once in a run.
C19_LoadingEvents ==
  \A r \in RunIds :
    /\ Cardinality(Scanning(r)) <= 1
    /\ Cardinality(Count(r)) <= 1
    /\ Cardinality(Converting(r)) <= 1
    /\ pc[r] \in {"absent", "idle"} => Scanning(r) = {}
    /\ pc[r] \notin {"absent", "idle"} => Scanning(r) # {}
    /\ pc[r] = "glob" => Count(r) = {} /\ Converting(r) = {}
    /\ Count(r) # {} => globOk[r] /\ Scanning(r) # {}
    /\ \A i \in Count(r) :
         /\ console[r][i].num = Len(files[r])
         /\ \A j \in Scanning(r) : j < i
         /\ \A k \in Converting(r) : i < k
    /\ Converting(r) # {} => Count(r) # {}
    /\ Converting(r) = {} => pos[r] = 0 /\ XS[r] = <<>> /\ pc[r] # "forEach"

\* The third of three enumerated files has been decoded.
C19_Witness ==
  \E r \in RunIds :
    /\ pc[r] = "forEach" /\ pos[r] = 3
    /\ console[r][3] = Line("Files Found", 3)
    /\ console[r][4] = Line("Now converting to tensors", 0)

\* ----------------------------------------------------------------- C20
\* C20: in every run that has reached Training or Completed the stacked
\* normalized image tensor folderToTensors resolved with has been disposed.
C20_ImagesReleased ==
  \A r \in RunIds : Stage(r) \in {"Training", "Completed"} => "XNORM" \notin live[r]

\* ----------------------------------------------------------------- C21
\* C21: whatever has been drawn so far, the two arrays of shuffleCombo have
\* the length N of the arrays given, every sample given is at exactly one
\* position of the image array, and the label at a position is the label of
\* the sample at that position: nothing is lost and nothing duplicated.
C21_OnlyPermutes ==
  \A e \in execs :
    LET N == Len(given)
    IN /\ Len(e.array) = N /\ Len(e.array2) = N
       /\ \A k \in 1..N :
            Cardinality({i \in 1..N : e.array[i] = given[k]}) = 1
       /\ \A i \in 1..N :
            /\ \E k \in 1..N : e.array[i] = given[k]
            /\ e.array2[i] = LabelOf(e.array[i])
       /\ Cardinality({i \in 1..N : e.array2[i] = 1})
            = Cardinality({k \in 1..N : LabelOf(given[k]) = 1})

\* Half-way through the loop over the longest array an execution has moved
\* samples, and another has left them where they were.
C21_Witness ==
  /\ Len(given) = MaxShuffle
  /\ \E e \in execs : e.counter = 2 /\ e.array # given
  /\ \E e \in execs : e.counter = 2 /\ e.array = given

\* ----------------------------------------------------------------- C22
\* The handlers that check their path against the upload directory.
Checking == {"moveImage", "deleteImage", "createLabel", "deleteLabel", "directory"}

\* The path is the upload directory or lies below it.
InUploadDir(path) ==
  Len(uploadDir) <= Len(path) /\ SubSeq(path, 1, Len(uploadDir)) = uploadDir

\* C22: every path a checking handler hands to the file system, to read,
\* create, move or delete it, is the upload directory or lies below it.
C22_StaysInUploadDir ==
  \A t \in touched : t.by \in Checking => InUploadDir(t.path)

\* ----------------------------------------------------------------- C23
\* Request r has been answered with the event name.
Answered(r, name) == \E i \in 1..Len(replies[r]) : replies[r][i].name = name

\* C23: two uploadFolder requests with the same projectName and
\* originalFolderName that were both answered uploadFolderSuccess were
\* answered with different folderName values, and the file each wrote is in
\* its folder as it wrote it.
C23_FreshFolderPerUpload ==
  \A r, q \in ReqIds :
    /\ r # q
    /\ req[r].kind = "uploadFolder" /\ req[q].kind = "uploadFolder"
    /\ req[r].projectName = req[q].projectName /\ req[r].name = req[q].name
    /\ Answered(r, "uploadFolderSuccess") /\ Answered(q, "uploadFolderSuccess")
    => /\ replies[r][1].folderName # replies[q][1].folderName
       /\ LET destination == join(uploadPath(req[r], folder[r]), req[r].imageName)
          IN existsSync(destination) /\ disk[destination] = Upload(r)

\* ----------------------------------------------------------------- C24
\* The handler of request r has ended.
Ended(r) == at[r] \in {"replied", "threw"}

\* The step answers the moveImage request r with the event name.
Answers(r, name) ==
  /\ req[r].kind = "moveImage"
  /\ replies'[r] # replies[r]
  /\ replies'[r][Len(replies'[r])].name = name

\* C24: a moveImage request whose handler has ended was answered exactly
\* once; when it is answered moveImageSuccess the image is under the target
\* label and not under the source label; when it is answered moveImageError
\* after the handler had found the image under the source label, the image
\* is still there, and what was under the target label is as it was.
C24_MoveAnsweredOnce ==
  /\ [](\A r \in ReqIds :
         req[r].kind = "moveImage" =>
           /\ Len(replies[r]) <= 1
           /\ Ended(r) => Len(replies[r]) = 1)
  /\ [][\A r \in ReqIds :
          LET src == sourcePath(req[r])
              dst == targetPath(req[r])
          IN /\ Answers(r, "moveImageSuccess") =>
                  dst \in DOMAIN disk' /\ src \notin DOMAIN disk'
             /\ Answers(r, "moveImageError") =>
                  /\ at[r] \in {"mkdir", "move"} => src \in DOMAIN disk'
                  /\ dst \in DOMAIN disk =>
                       dst \in DOMAIN disk' /\ disk'[dst] = disk[dst]]_vars

====
